---- MODULE Spec2Model ----
(***************************************************************************)
(* A model of the self-update pipeline of codex-rs/cli/src/self_update.rs: *)
(* release discovery (list_releases and its helpers) and the binary        *)
(* replacement sequence (download_and_replace_binary).                     *)
(*                                                                         *)
(* Strings are sequences of one-character strings, so that splitting,      *)
(* prefix stripping, suffix tests and comparisons are computed, not        *)
(* assumed.  File contents are sequences of small integers (bytes).        *)
(***************************************************************************)
EXTENDS Integers, Sequences, FiniteSets, TLC

VARIABLES
    \* ---- download_and_replace_binary: the file system ----
    platform,     \* "unix" or "windows": which cfg blocks were compiled in
    dir,          \* directory: path -> inode id; the domain is the paths that exist
    ino,          \* inode id -> [content, mode, writer]; the domain is the allocated
                  \* inodes, writer the process whose write reached the file last
    \* ---- download_and_replace_binary: one call per updater process ----
    pc,           \* process -> position in download_and_replace_binary
    asset,        \* process -> the GitHubAsset argument's name
    bytes,        \* process -> the downloaded body
    fd,           \* process with an open temp file handle -> the inode it refers to
    buf,          \* process -> extracted bytes being written
    result,       \* process -> "pending", "Ok" or the error returned
    renames,      \* the processes whose rename onto the executable path succeeded, in order
    \* ---- list_releases ----
    l_pc,         \* position in list_releases
    repo_override,\* the argument, an Option<&str>: [some, s]
    all_releases, \* the Vec<Release> being built
    requests,     \* the "owner/repo" of every fetch issued, in order
    responses,    \* the outcome of every fetch that completed, in order
    warned,       \* the eprintln! warning of line 75 was printed
    l_result,     \* what list_releases returned: [kind, err, value], kind "pending",
                  \* "Ok" (with value) or "Err" (with err)
    \* ---- find_suitable_asset ----
    a_pc,         \* "idle", "called" or "returned"
    assets,       \* the slice argument: the names of a release's assets, in order
    target_triple,\* the target_triple argument
    selected,     \* the Option returned: [some, at], at the index of the asset
    \* ---- parse_version_from_tag ----
    v_pc,         \* "idle", "called" or "returned"
    tag_prefix,   \* the tag given is tag_prefix \o tag_rest
    tag_rest,
    version,      \* the String returned
    \* ---- LimitTracker ----
    t_pc,         \* "idle" or "ready": a LimitTracker was constructed
    now,          \* SystemTime::now() in seconds since UNIX_EPOCH
    limit_file,   \* the file at codex_home/limit: [exists, readable, content]
    answer,       \* what the last call returned: [fn, value], value the bool
                  \* returned or whether the Result is Ok; fn "none" when no
                  \* call was made since the clock last changed
    hit_log       \* whether the file holds what a record_limit_hit wrote, and
                  \* then the times of the first and the last record_limit_hit
                  \* since the file last held none: [some, first, last]

varsR == <<platform, dir, ino, pc, asset, bytes, fd, buf, result, renames>>
varsL == <<l_pc, repo_override, all_releases, requests, responses, warned, l_result>>
varsA == <<a_pc, assets, target_triple, selected>>
varsV == <<v_pc, tag_prefix, tag_rest, version>>
varsT == <<t_pc, now, limit_file, answer, hit_log>>
vars == <<platform, dir, ino, pc, asset, bytes, fd, buf, result, renames,
          l_pc, repo_override, all_releases, requests, responses, warned, l_result,
          a_pc, assets, target_triple, selected,
          v_pc, tag_prefix, tag_rest, version,
          t_pc, now, limit_file, answer, hit_log>>

\* What the steps of one component leave alone: the other components.
othersR == <<varsL, varsA, varsV, varsT>>
othersL == <<varsR, varsA, varsV, varsT>>
othersA == <<varsR, varsL, varsV, varsT>>
othersV == <<varsR, varsL, varsA, varsT>>
othersT == <<varsR, varsL, varsA, varsV>>

(***************************************************************************)
(* Bounds of the model.                                                    *)
(***************************************************************************)
\* Number of updater processes that may race on one executable path.
NumProcs == 2
\* Largest number of releases one source returns in a response.
MaxReleases == 2

(***************************************************************************)
(* Strings as character sequences.                                         *)
(***************************************************************************)
StartsWith(s, pre) ==
    /\ Len(pre) <= Len(s)
    /\ SubSeq(s, 1, Len(pre)) = pre

EndsWith(s, suf) ==
    /\ Len(suf) <= Len(s)
    /\ SubSeq(s, Len(s) - Len(suf) + 1, Len(s)) = suf

\* str::split(sep).collect(): the pieces between separators, empty pieces kept;
\* a string with k separators gives k+1 pieces.
RECURSIVE Split(_, _)
Split(s, sep) ==
    IF \A i \in 1..Len(s) : s[i] # sep
    THEN <<s>>
    ELSE LET i == CHOOSE k \in 1..Len(s) :
                     /\ s[k] = sep
                     /\ \A j \in 1..(k - 1) : s[j] # sep
         IN <<SubSeq(s, 1, i - 1)>> \o Split(SubSeq(s, i + 1, Len(s)), sep)

(***************************************************************************)
(* The file system of download_and_replace_binary.                         *)
(***************************************************************************)
\* env::current_exe(), current_exe.with_extension("tmp"), .with_extension("old")
CurrentExe == "current_exe"
\* A build that writes the new bytes in place, straight onto the executable.
TempPathInPlace == CurrentExe
TempPath == "temp_path"
BackupPath == "backup_path"
Paths == {CurrentExe, TempPath, BackupPath}

\* Mode bits: 0o755 set by the updater, 0o644 of a freshly created file.
Mode755 == 493
Mode644 == 420

\* The binary that is running, and the inode that holds it.
OldBinary == <<0, 0, 0>>
OldInode == 0

Procs == 1..NumProcs

\* A write that appends to what the file holds instead of writing from offset 0.
OverwriteAppending(old, new) == old \o new

\* pwrite at offset 0 into a file that was not truncated since: the new bytes
\* replace a prefix, bytes beyond them stay.
Overwrite(old, new) ==
    new \o SubSeq(old, Len(new) + 1, Len(old))

(***************************************************************************)
(* Assets and downloaded bodies.                                           *)
(***************************************************************************)
\* Payloads a release may carry as its executable.
NewA == <<1, 1>>
NewB == <<2>>
Doc == <<7>>
Payloads == {NewA, NewB}

\* Asset names: one per supported suffix, and one with an unsupported suffix.
NameZst == <<"c", ".", "z", "s", "t">>
NameTarGz == <<"c", ".", "t", "a", "r", ".", "g", "z">>
NameZip == <<"c", ".", "z", "i", "p">>
NameExe == <<"c", ".", "e", "x", "e">>
AssetNames == {NameZst, NameTarGz, NameZip, NameExe}

\* Names of archive entries.
EntryCodex == <<"c", "o", "d", "e", "x">>
EntryCodexDash == <<"d", "/", "c", "o", "d", "e", "x", "-", "x">>
EntryCodexExe == <<"c", "o", "d", "e", "x", ".", "e", "x", "e">>
EntryReadme == <<"R", "E", "A", "D", "M", "E">>
\* A directory of the archive, as archivers name it, and files inside it.
EntryDir == <<"c", "o", "d", "e", "x", "-", "x", "/">>
EntryInDir == EntryDir \o <<"c", "o", "d", "e", "x">>
EntryExeInDir == EntryDir \o <<"c", "o", "d", "e", "x", ".", "e", "x", "e">>

\* What the download returned: a zstd stream of `data`, a gzip'ed tar or a zip
\* holding `entries` in archive order, or bytes that are none of these.
Body(f, d, es) == [fmt |-> f, data |-> d, entries |-> es]
Entry(n, d) == [name |-> n, data |-> d]
Bodies ==
    { Body("zst", NewA, <<>>),
      Body("tar.gz", <<>>, <<Entry(EntryReadme, Doc), Entry(EntryCodexDash, NewA)>>),
      Body("tar.gz", <<>>, <<Entry(EntryReadme, Doc)>>),
      Body("tar.gz", <<>>, <<Entry(EntryDir, <<>>), Entry(EntryInDir, NewA)>>),
      Body("zip", <<>>, <<Entry(EntryDir, <<>>), Entry(EntryExeInDir, NewB),
                          Entry(EntryCodex, Doc)>>),
      Body("garbage", <<>>, <<>>) }

Ok(d) == [ok |-> TRUE, err |-> "", data |-> d]
Err(e) == [ok |-> FALSE, err |-> e, data |-> <<>>]

\* name.split('/').next_back() of a zip entry name: the text after the last
\* '/', empty when the name ends with one.
FileName(path) ==
    LET parts == Split(path, "/") IN parts[Len(parts)]

\* Path::file_name of a tar entry path: the last component when it is a
\* normal one.  Repeated and trailing separators and "." pieces other than
\* a leading one are not components; a path that is empty, "/", or ends in
\* ".." (or is ".") has no file name.
PathFileName(path) ==
    LET parts == Split(path, "/")
        comps == { i \in 1..Len(parts) :
                     /\ parts[i] # <<>>
                     /\ parts[i] = <<".">> => i = 1 }
        last == CHOOSE i \in comps : \A j \in comps : j <= i
    IN IF comps = {} \/ parts[last] \in {<<".">>, <<".", ".">>}
       THEN [some |-> FALSE, name |-> <<>>]
       ELSE [some |-> TRUE, name |-> parts[last]]

TarMatches(filename) ==
    filename = <<"c", "o", "d", "e", "x">>
        \/ StartsWith(filename, <<"c", "o", "d", "e", "x", "-">>)

ZipMatches(filename) ==
    filename = <<"c", "o", "d", "e", "x", ".", "e", "x", "e">>
        \/ StartsWith(filename, <<"c", "o", "d", "e", "x", "-">>)

\* A loop that goes through all the entries and keeps the last that matches.
LastMatch(hits) ==
    IF hits = {} THEN 0
    ELSE CHOOSE i \in hits : \A j \in hits : j <= i

\* The loops of extract_tar_gz and extract_zip return at the first entry, in
\* archive order, that matches: the least of the matching indices (0: none).
FirstMatch(hits) ==
    IF hits = {} THEN 0
    ELSE CHOOSE i \in hits : \A j \in hits : i <= j

\* extract_tar_gz up to its fs::write: the bytes to write, or the error.
extract_tar_gz(body) ==
    IF body.fmt # "tar.gz" THEN Err("DecodeError")
    ELSE LET i == FirstMatch({ k \in 1..Len(body.entries) :
                                      /\ PathFileName(body.entries[k].name).some
                                      /\ TarMatches(PathFileName(body.entries[k].name).name) })
         IN IF i = 0 THEN Err("BinaryNotFoundInArchive")
            ELSE Ok(body.entries[i].data)

\* extract_zip up to its fs::write.
extract_zip(body) ==
    IF body.fmt # "zip" THEN Err("DecodeError")
    ELSE LET i == FirstMatch({ k \in 1..Len(body.entries) :
                                      ZipMatches(FileName(body.entries[k].name)) })
         IN IF i = 0 THEN Err("BinaryNotFoundInArchive")
            ELSE Ok(body.entries[i].data)

\* A dispatch on what the downloaded bytes are instead of the asset's name.
ExtractSniffing(name, body) ==
    IF body.fmt = "zst" THEN Ok(body.data)
    ELSE IF body.fmt = "tar.gz" THEN extract_tar_gz(body)
    ELSE IF body.fmt = "zip" THEN extract_zip(body)
    ELSE Err("UnsupportedAssetFormat")

\* The dispatch on the asset name's suffix (lines 251-263), up to the write.
Extract(name, body) ==
    IF EndsWith(name, <<".", "z", "s", "t">>)
    THEN IF body.fmt = "zst" THEN Ok(body.data) ELSE Err("DecodeError")
    ELSE IF EndsWith(name, <<".", "t", "a", "r", ".", "g", "z">>)
    THEN extract_tar_gz(body)
    ELSE IF EndsWith(name, <<".", "z", "i", "p">>)
    THEN extract_zip(body)
    ELSE Err("UnsupportedAssetFormat")

(***************************************************************************)
(* download_and_replace_binary, one step per await point or system call.   *)
(*   "call"     the request for asset.browser_download_url is in flight    *)
(*   "bytes"    the body arrived (line 244)                                *)
(*   "opened"   fs::write has created or truncated temp_path               *)
(*   "written"  fs::write has written the bytes and closed the file        *)
(*   "stat"     cfg(unix): fs::metadata(temp_path) returned (line 269)     *)
(*   "chmod"    cfg(unix): fs::set_permissions returned (line 271)         *)
(*   "backed"   cfg(windows): current_exe renamed to backup_path (279)     *)
(*   "swapped"  cfg(windows): temp_path renamed to current_exe (280)       *)
(*   "done"     the call returned `result`                                 *)
(***************************************************************************)
Exists(path) == path \in DOMAIN dir

\* fs::rename(from, to) on a directory in which `from` exists: `to` is
\* replaced if it exists, `from` is gone.
Rename(d, from, to) ==
    [x \in (DOMAIN d \ {from}) \cup {to} |-> IF x = to THEN d[from] ELSE d[x]]

Unlink(d, path) == [x \in DOMAIN d \ {path} |-> d[x]]

Return(p, r) ==
    /\ pc' = [pc EXCEPT ![p] = "done"]
    /\ result' = [result EXCEPT ![p] = r]

\* Lines 237-244: the download succeeds with some body.
Download(p) ==
    /\ pc[p] = "call"
    /\ \E n \in AssetNames, b \in Bodies :
          /\ asset' = [asset EXCEPT ![p] = n]
          /\ bytes' = [bytes EXCEPT ![p] = b]
    /\ pc' = [pc EXCEPT ![p] = "bytes"]
    /\ UNCHANGED <<platform, dir, ino, fd, buf, result, renames>>
    /\ UNCHANGED othersR

\* Lines 247-263 up to the open of fs::write: decode, find the binary, and
\* create or truncate temp_path; a decode or format error returns.
ExtractOpen(p) ==
    /\ pc[p] = "bytes"
    /\ LET r == Extract(asset[p], bytes[p]) IN
         IF ~r.ok
         THEN /\ Return(p, r.err)
              /\ UNCHANGED <<dir, ino, fd, buf>>
         ELSE LET i == IF Exists(TempPath) THEN dir[TempPath] ELSE p IN
              /\ dir' = [x \in DOMAIN dir \cup {TempPath} |->
                            IF x = TempPath THEN i ELSE dir[x]]
              /\ ino' = [x \in DOMAIN ino \cup {i} |->
                            IF x = i
                            THEN [content |-> <<>>,
                                  mode |-> IF i \in DOMAIN ino THEN ino[i].mode
                                           ELSE Mode644,
                                  writer |-> p]
                            ELSE ino[x]]
              /\ fd' = [x \in DOMAIN fd \cup {p} |-> IF x = p THEN i ELSE fd[x]]
              /\ buf' = [buf EXCEPT ![p] = r.data]
              /\ pc' = [pc EXCEPT ![p] = "opened"]
              /\ UNCHANGED result
    /\ UNCHANGED <<platform, asset, bytes, renames>>
    /\ UNCHANGED othersR

\* The write_all and close of fs::write: the bytes go to the inode the handle
\* refers to, wherever the directory now points.
WriteAll(p) ==
    /\ pc[p] = "opened"
    /\ ino' = [ino EXCEPT ![fd[p]].content = Overwrite(@, buf[p]),
                          ![fd[p]].writer = p]
    /\ fd' = [x \in DOMAIN fd \ {p} |-> fd[x]]
    /\ pc' = [pc EXCEPT ![p] = "written"]
    /\ UNCHANGED <<platform, dir, asset, bytes, buf, result, renames>>
    /\ UNCHANGED othersR

\* Line 269, cfg(unix): fs::metadata(&temp_path)?
Metadata(p) ==
    /\ platform = "unix"
    /\ pc[p] = "written"
    /\ IF Exists(TempPath)
       THEN pc' = [pc EXCEPT ![p] = "stat"] /\ UNCHANGED result
       ELSE Return(p, "IoError")
    /\ UNCHANGED <<platform, dir, ino, asset, bytes, fd, buf, renames>>
    /\ UNCHANGED othersR

\* A build without lines 270-271: the mode stays what fs::write gave the file.
SetPermissionsKeepingMode(p) ==
    /\ pc[p] = "stat"
    /\ IF Exists(TempPath)
       THEN pc' = [pc EXCEPT ![p] = "chmod"] /\ UNCHANGED result
       ELSE Return(p, "IoError")
    /\ UNCHANGED <<platform, dir, ino, asset, bytes, fd, buf, renames>>
    /\ UNCHANGED othersR

\* Lines 270-271, cfg(unix): fs::set_permissions(&temp_path, 0o755)?
SetPermissions(p) ==
    /\ pc[p] = "stat"
    /\ IF Exists(TempPath)
       THEN /\ ino' = [ino EXCEPT ![dir[TempPath]].mode = Mode755]
            /\ pc' = [pc EXCEPT ![p] = "chmod"]
            /\ UNCHANGED result
       ELSE Return(p, "IoError") /\ UNCHANGED ino
    /\ UNCHANGED <<platform, dir, asset, bytes, fd, buf, renames>>
    /\ UNCHANGED othersR

\* Line 279, cfg(windows): fs::rename(&current_exe, &backup_path)?
RenameBackup(p) ==
    /\ platform = "windows"
    /\ pc[p] = "written"
    /\ IF Exists(CurrentExe)
       THEN /\ dir' = Rename(dir, CurrentExe, BackupPath)
            /\ pc' = [pc EXCEPT ![p] = "backed"]
            /\ UNCHANGED result
       ELSE Return(p, "IoError") /\ UNCHANGED dir
    /\ UNCHANGED <<platform, ino, asset, bytes, fd, buf, renames>>
    /\ UNCHANGED othersR

\* Line 280 (cfg(windows)) and line 286 (cfg(not(windows))):
\* fs::rename(&temp_path, &current_exe)?  On unix the call then returns Ok.
RenameTemp(p) ==
    /\ pc[p] = IF platform = "unix" THEN "chmod" ELSE "backed"
    /\ IF Exists(TempPath)
       THEN /\ dir' = Rename(dir, TempPath, CurrentExe)
            /\ renames' = Append(renames, p)
            /\ IF platform = "unix"
               THEN Return(p, "Ok")
               ELSE pc' = [pc EXCEPT ![p] = "swapped"] /\ UNCHANGED result
       ELSE Return(p, "IoError") /\ UNCHANGED <<dir, renames>>
    /\ UNCHANGED <<platform, ino, asset, bytes, fd, buf>>
    /\ UNCHANGED othersR

\* Line 281, cfg(windows): let _ = fs::remove_file(&backup_path); then Ok.
RemoveBackup(p) ==
    /\ pc[p] = "swapped"
    /\ dir' = Unlink(dir, BackupPath)
    /\ Return(p, "Ok")
    /\ UNCHANGED <<platform, ino, asset, bytes, fd, buf, renames>>
    /\ UNCHANGED othersR

(***************************************************************************)
(* Failures the environment may inject at each `?` of the function.        *)
(***************************************************************************)
\* Lines 237-244: send, error_for_status or bytes() fails.
DownloadFails(p) ==
    /\ pc[p] = "call"
    /\ Return(p, "FetchError")
    /\ UNCHANGED <<platform, dir, ino, asset, bytes, fd, buf, renames>>
    /\ UNCHANGED othersR

\* Line 247 (env::current_exe()?) or the open of fs::write fails: nothing
\* was created.
OpenFails(p) ==
    /\ pc[p] = "bytes"
    /\ Return(p, "IoError")
    /\ UNCHANGED <<platform, dir, ino, asset, bytes, fd, buf, renames>>
    /\ UNCHANGED othersR

\* The write of fs::write fails part-way: a prefix of the bytes is on disk.
WriteFails(p) ==
    /\ pc[p] = "opened"
    /\ \E n \in 0..(Len(buf[p]) - 1) :
          ino' = [ino EXCEPT ![fd[p]].content = Overwrite(@, SubSeq(buf[p], 1, n)),
                             ![fd[p]].writer = p]
    /\ fd' = [x \in DOMAIN fd \ {p} |-> fd[x]]
    /\ Return(p, "IoError")
    /\ UNCHANGED <<platform, dir, asset, bytes, buf, renames>>
    /\ UNCHANGED othersR

\* Lines 269-271: metadata or set_permissions is refused.
ChmodFails(p) ==
    /\ platform = "unix"
    /\ pc[p] \in {"written", "stat"}
    /\ Return(p, "IoError")
    /\ UNCHANGED <<platform, dir, ino, asset, bytes, fd, buf, renames>>
    /\ UNCHANGED othersR

\* Lines 279, 280, 286: a rename is refused; the directory is unchanged.
RenameFails(p) ==
    /\ \/ platform = "unix" /\ pc[p] = "chmod"
       \/ platform = "windows" /\ pc[p] \in {"written", "backed"}
    /\ Return(p, "IoError")
    /\ UNCHANGED <<platform, dir, ino, asset, bytes, fd, buf, renames>>
    /\ UNCHANGED othersR

\* A line 281 that ends in `?`: the failure of remove_file is returned.
RemoveBackupFailsFatal(p) ==
    /\ pc[p] = "swapped"
    /\ Return(p, "IoError")
    /\ UNCHANGED <<platform, dir, ino, asset, bytes, fd, buf, renames>>
    /\ UNCHANGED othersR

\* Line 281: remove_file fails, which is ignored: the backup stays, Ok.
RemoveBackupFails(p) ==
    /\ pc[p] = "swapped"
    /\ Return(p, "Ok")
    /\ UNCHANGED <<platform, dir, ino, asset, bytes, fd, buf, renames>>
    /\ UNCHANGED othersR

\* One step of download_and_replace_binary when every system call does what
\* the file system's state determines.
Step(p) ==
    \/ Download(p)
    \/ ExtractOpen(p)
    \/ WriteAll(p)
    \/ Metadata(p)
    \/ SetPermissions(p)
    \/ RenameBackup(p)
    \/ RenameTemp(p)
    \/ RemoveBackup(p)

Fault(p) ==
    \/ DownloadFails(p)
    \/ OpenFails(p)
    \/ WriteFails(p)
    \/ ChmodFails(p)
    \/ RenameFails(p)
    \/ RemoveBackupFails(p)

NoAsset == <<>>
NoBody == Body("none", <<>>, <<>>)

InitR ==
    /\ platform \in {"unix", "windows"}
    /\ dir = [x \in {CurrentExe} |-> OldInode]
    /\ ino = [x \in {OldInode} |->
                 [content |-> OldBinary, mode |-> Mode755, writer |-> 0]]
    /\ pc = [p \in Procs |-> "call"]
    /\ asset = [p \in Procs |-> NoAsset]
    /\ bytes = [p \in Procs |-> NoBody]
    /\ fd = [x \in {} |-> OldInode]
    /\ buf = [p \in Procs |-> <<>>]
    /\ result = [p \in Procs |-> "pending"]
    /\ renames = <<>>

\* list_releases is not running.
IdleL ==
    /\ l_pc = "idle"
    /\ repo_override = [some |-> FALSE, s |-> <<>>]
    /\ all_releases = <<>>
    /\ requests = <<>>
    /\ responses = <<>>
    /\ warned = FALSE
    /\ l_result = [kind |-> "pending", err |-> "", value |-> <<>>]

\* find_suitable_asset is not running.
IdleA ==
    /\ a_pc = "idle"
    /\ assets = <<>>
    /\ target_triple = <<>>
    /\ selected = [some |-> FALSE, at |-> 0]

\* parse_version_from_tag is not running.
IdleV ==
    /\ v_pc = "idle"
    /\ tag_prefix = <<>>
    /\ tag_rest = <<>>
    /\ version = <<>>

\* No LimitTracker was constructed.
IdleT ==
    /\ t_pc = "idle"
    /\ now = 0
    /\ limit_file = [exists |-> FALSE, readable |-> FALSE, content |-> <<>>]
    /\ answer = [fn |-> "none", value |-> FALSE]
    /\ hit_log = [some |-> FALSE, first |-> 0, last |-> 0]

\* One updater process; any system call may fail.
Init == InitR /\ IdleL /\ IdleA /\ IdleV /\ IdleT

Next ==
    \/ Step(1)
    \/ Fault(1)

Spec == Init /\ [][Next]_vars

\* NumProcs updater processes for the same executable path; no system call
\* fails for a reason other than what the other processes did.
NextRace == \E p \in Procs : Step(p)

SpecRace == Init /\ [][NextRace]_vars

(***************************************************************************)
(* Claims about download_and_replace_binary.                               *)
(***************************************************************************)
Content(path) == ino[dir[path]].content

Failed(p) == pc[p] = "done" /\ result[p] # "Ok"

\* C1: if download_and_replace_binary fails at any step, the file at the
\* running executable's path is exactly what it was before the call.
C1_FailureLeavesExecutableUntouched ==
    Failed(1) =>
        /\ Exists(CurrentExe)
        /\ dir[CurrentExe] = OldInode
        /\ ino[OldInode].content = OldBinary
        /\ ino[OldInode].mode = Mode755

BothWroteAndReturned ==
    \A p \in Procs : pc[p] = "done" /\ Extract(asset[p], bytes[p]).ok

\* C3 as stated: under every interleaving both calls complete without error
\* and the final binary is the payload of the process whose rename happened
\* last.
C3_BothSucceedLastRenameWins ==
    BothWroteAndReturned =>
        /\ \A p \in Procs : result[p] = "Ok"
        /\ Exists(CurrentExe)
        /\ Content(CurrentExe) = buf[renames[Len(renames)]]

\* C3 as amended: nothing coordinates the calls, and a call that finds the
\* shared temporary file (on windows: the executable) already moved away by
\* the other fails with an I/O error; a call returns Ok exactly when its own
\* rename onto the executable path succeeded, and at least one does.  The
\* final binary, when the path exists (on unix: always), is the file renamed
\* in last, and it starts with the payload of the process whose write reached
\* that file last, not necessarily the process that renamed last.
C3_RaceUndetectedButMayFail ==
    BothWroteAndReturned =>
        /\ \A p \in Procs : result[p] \in {"Ok", "IoError"}
        /\ \A p \in Procs :
              result[p] = "Ok" <=> \E i \in 1..Len(renames) : renames[i] = p
        /\ \E p \in Procs : result[p] = "Ok"
        /\ platform = "unix" => Exists(CurrentExe)
        /\ Exists(CurrentExe) =>
              /\ dir[CurrentExe] # OldInode
              /\ StartsWith(Content(CurrentExe), buf[ino[dir[CurrentExe]].writer])

\* C3's case: both calls wrote and returned, one of them with an error, and
\* the binary on disk is not the payload of the process that renamed last.
C3_Witness ==
    /\ BothWroteAndReturned
    /\ \E p \in Procs : result[p] = "IoError"
    /\ Exists(CurrentExe)
    /\ Content(CurrentExe) # buf[renames[Len(renames)]]

(***************************************************************************)
(* list_releases: strings, versions and their order.                       *)
(***************************************************************************)
\* The characters of the model's strings in ASCII order: a character's code
\* is its place in this sequence.
Ascii == <<"-", ".", "/", "0", "1", "2", "3", "4", "5", "6", "7", "8", "9",
           "a", "b", "c", "d", "e", "i", "l", "n", "o", "p", "r", "s", "t",
           "u", "v", "w", "x">>
Code(c) == CHOOSE i \in 1..Len(Ascii) : Ascii[i] = c
Digits == {"0", "1", "2", "3", "4", "5", "6", "7", "8", "9"}
Letters == {"a", "b", "c", "d", "e", "i", "l", "n", "o", "p", "r", "s", "t",
            "u", "v", "w", "x"}
DigitValue(c) == Code(c) - Code("0")

\* std::cmp::Ordering of two integers.
CmpInt(a, b) == IF a < b THEN "Less" ELSE IF a > b THEN "Greater" ELSE "Equal"

\* Ordering::reverse.
Reverse(o) == IF o = "Less" THEN "Greater" ELSE IF o = "Greater" THEN "Less" ELSE o

\* str::cmp: lexicographic by byte, a proper prefix is smaller.
RECURSIVE CmpStr(_, _)
CmpStr(a, b) ==
    IF a = <<>> /\ b = <<>> THEN "Equal"
    ELSE IF a = <<>> THEN "Less"
    ELSE IF b = <<>> THEN "Greater"
    ELSE IF a[1] # b[1] THEN CmpInt(Code(a[1]), Code(b[1]))
    ELSE CmpStr(Tail(a), Tail(b))

RECURSIVE ToNat(_)
ToNat(ds) ==
    IF ds = <<>> THEN 0
    ELSE 10 * ToNat(SubSeq(ds, 1, Len(ds) - 1)) + DigitValue(ds[Len(ds)])

AllDigits(x) == \A i \in 1..Len(x) : x[i] \in Digits

\* A numeric identifier of semver: digits, no leading zero.
IsNumeric(x) ==
    /\ x # <<>>
    /\ AllDigits(x)
    /\ Len(x) > 1 => x[1] # "0"

\* A pre-release identifier: non-empty, [0-9A-Za-z-], and without a leading
\* zero when it is all digits.
IsPreIdent(x) ==
    /\ x # <<>>
    /\ \A i \in 1..Len(x) : x[i] \in Digits \cup Letters \cup {"-"}
    /\ AllDigits(x) => IsNumeric(x)

\* Index of the first occurrence of c in s, 0 if there is none.
IndexOf(s, c) ==
    IF \A i \in 1..Len(s) : s[i] # c THEN 0
    ELSE CHOOSE i \in 1..Len(s) : s[i] = c /\ \A j \in 1..(i - 1) : s[j] # c

\* The parsed version of a core split at its dots and a pre-release split at
\* its dots (empty: none): three numeric identifiers, valid pre-release
\* identifiers.
VersionOf(nums, pre) ==
    IF /\ Len(nums) = 3
       /\ \A i \in 1..3 : IsNumeric(nums[i])
       /\ \A i \in 1..Len(pre) : IsPreIdent(pre[i])
    THEN [ok |-> TRUE, major |-> ToNat(nums[1]), minor |-> ToNat(nums[2]),
          patch |-> ToNat(nums[3]), pre |-> pre]
    ELSE [ok |-> FALSE, major |-> 0, minor |-> 0, patch |-> 0, pre |-> <<>>]

\* The version of a string whose first '-' is at index dash (0: none).
ParseAt(s, dash) ==
    IF dash = 0
    THEN VersionOf(Split(s, "."), <<>>)
    ELSE VersionOf(Split(SubSeq(s, 1, dash - 1), "."),
                   Split(SubSeq(s, dash + 1, Len(s)), "."))

\* semver::Version::parse on strings without build metadata ('+' is not a
\* character of the model): MAJOR.MINOR.PATCH, then an optional '-' and a
\* non-empty dot-separated pre-release.
ParseVersion(s) == ParseAt(s, IndexOf(s, "-"))

\* Order of two pre-release identifiers: numeric ones by value and below
\* alphanumeric ones, alphanumeric ones by ASCII.
CmpIdent(x, y) ==
    IF AllDigits(x) /\ AllDigits(y) THEN CmpInt(ToNat(x), ToNat(y))
    ELSE IF AllDigits(x) THEN "Less"
    ELSE IF AllDigits(y) THEN "Greater"
    ELSE CmpStr(x, y)

\* Order of two pre-releases: none is above any; otherwise identifier by
\* identifier, and the longer one is above its prefix.
RECURSIVE CmpPre(_, _)
CmpPre(x, y) ==
    IF x = <<>> /\ y = <<>> THEN "Equal"
    ELSE IF x = <<>> THEN "Greater"
    ELSE IF y = <<>> THEN "Less"
    ELSE LET RECURSIVE Idents(_, _)
             Idents(u, w) ==
                 IF u = <<>> /\ w = <<>> THEN "Equal"
                 ELSE IF u = <<>> THEN "Less"
                 ELSE IF w = <<>> THEN "Greater"
                 ELSE IF CmpIdent(u[1], w[1]) # "Equal" THEN CmpIdent(u[1], w[1])
                 ELSE Idents(Tail(u), Tail(w))
         IN Idents(x, y)

\* semver::Version::cmp.
CmpVersion(v, w) ==
    IF v.major # w.major THEN CmpInt(v.major, w.major)
    ELSE IF v.minor # w.minor THEN CmpInt(v.minor, w.minor)
    ELSE IF v.patch # w.patch THEN CmpInt(v.patch, w.patch)
    ELSE CmpPre(v.pre, w.pre)

\* A normalizer that strips prefixes for as long as there is one.
RECURSIVE parse_version_from_tag_repeatedly(_)
parse_version_from_tag_repeatedly(tag_name) ==
    IF StartsWith(tag_name, <<"r", "u", "s", "t", "-", "v">>)
    THEN parse_version_from_tag_repeatedly(SubSeq(tag_name, 7, Len(tag_name)))
    ELSE IF StartsWith(tag_name, <<"v">>)
    THEN parse_version_from_tag_repeatedly(SubSeq(tag_name, 2, Len(tag_name)))
    ELSE tag_name

\* parse_version_from_tag (lines 152-162).
parse_version_from_tag(tag_name) ==
    IF StartsWith(tag_name, <<"r", "u", "s", "t", "-", "v">>)
    THEN SubSeq(tag_name, 7, Len(tag_name))
    ELSE IF StartsWith(tag_name, <<"v">>)
    THEN SubSeq(tag_name, 2, Len(tag_name))
    ELSE tag_name

\* Tags a source may publish.
TagRust190 == <<"r", "u", "s", "t", "-", "v", "1", ".", "9", ".", "0">>
TagV1100 == <<"v", "1", ".", "1", "0", ".", "0">>
Tag190 == <<"1", ".", "9", ".", "0">>
Tag190a == <<"1", ".", "9", ".", "0", "-", "a">>
TagNope == <<"n", "o", "p", "e">>
TagV10 == <<"v", "1", ".", "0">>
Tags == {TagRust190, TagV1100, Tag190, Tag190a, TagNope, TagV10}

\* The version strings list_releases can meet, and semver::Version::parse
\* tabulated over them: the closure parses the same strings at every call.
Versions == { parse_version_from_tag(t) : t \in Tags }
Parsed == [s \in Versions |-> ParseVersion(s)]

\* The match of lines 111-119 on the two parse results.
MatchParsed(va, vb, a, b) ==
    IF va.ok /\ vb.ok THEN CmpVersion(vb, va)
    ELSE IF va.ok THEN "Less"
    ELSE IF vb.ok THEN "Greater"
    ELSE Reverse(CmpStr(a.version, b.version))

\* The closure of lines 109-120 with the semantic order ascending.
CompareReleasesAscending(a, b) ==
    MatchParsed(Parsed[b.version], Parsed[a.version], b, a)

\* The closure given to sort_by (lines 109-120).
CompareReleases(a, b) ==
    MatchParsed(Parsed[a.version], Parsed[b.version], a, b)

\* One insertion of a sort that is not stable: x goes in front of the
\* elements of the sorted run that compare equal to it.
InsertBeforeEquals(sorted, x) ==
    LET k == Cardinality({ i \in 1..Len(sorted) :
                             CompareReleases(sorted[i], x) = "Less" })
    IN SubSeq(sorted, 1, k) \o <<x>> \o SubSeq(sorted, k + 1, Len(sorted))

\* One insertion of a stable sort: x goes behind the elements of the sorted
\* run that do not compare greater than it.
Insert(sorted, x) ==
    LET k == Cardinality({ i \in 1..Len(sorted) :
                             CompareReleases(sorted[i], x) # "Greater" })
    IN SubSeq(sorted, 1, k) \o <<x>> \o SubSeq(sorted, k + 1, Len(sorted))

RECURSIVE SortInto(_, _)
SortInto(sorted, rest) ==
    IF rest = <<>> THEN sorted
    ELSE SortInto(Insert(sorted, rest[1]), Tail(rest))

\* slice::sort_by with the closure of lines 109-120: a stable sort.
SortBy(v) == SortInto(<<>>, v)

\* parse_repo_string (lines 144-150).
parse_repo_string(repo) ==
    LET parts == Split(repo, "/")
    IN IF Len(parts) # 2
       THEN [ok |-> FALSE, owner |-> <<>>, name |-> <<>>]
       ELSE [ok |-> TRUE, owner |-> parts[1], name |-> parts[2]]

(***************************************************************************)
(* list_releases (lines 54-123), one step per await point.                 *)
(*   "idle"       not called                                               *)
(*   "primary"    the fetch of the primary repository is in flight         *)
(*   "secondary"  the fetch of the secondary repository is in flight       *)
(*   "done"       the call returned l_result                               *)
(***************************************************************************)
PRIMARY_REPO_OWNER == <<"o", "p", "e", "n", "a", "i">>
PRIMARY_REPO_NAME == <<"c", "o", "d", "e", "x">>
DEFAULT_REPO_OWNER == <<"i", "a", "i", "n", "l", "o", "w", "e">>
DEFAULT_REPO_NAME == <<"c", "o", "d", "e", "x">>

\* format!("{owner}/{name}")
RepoId(owner, name) == owner \o <<"/">> \o name

\* The decoded Vec<GitHubRelease> of a response: up to MaxReleases entries;
\* published_at stands for the fields carried over unchanged and tells the
\* entries of one response apart.
ReleaseLists ==
    UNION { { [i \in 1..n |-> [tag_name |-> f[i], published_at |-> i]] :
                f \in [1..n -> Tags] } : n \in 0..MaxReleases }

\* What fetch_releases_from_repo returns: Ok(releases) or an error.
FetchOutcomes ==
    { [ok |-> TRUE, releases |-> l] : l \in ReleaseLists }
        \cup { [ok |-> FALSE, releases |-> <<>>] }

Some(str) == [some |-> TRUE, s |-> str]
None == [some |-> FALSE, s |-> <<>>]

\* Values of the repo_override argument.
Overrides ==
    { None,
      Some(<<"o", "p", "e", "n", "a", "i", "/", "c", "o", "d", "e", "x">>),
      Some(<<"a", "/", "b">>),
      Some(<<"a", "b">>),
      Some(<<"a", "/", "b", "/", "c">>),
      Some(<<"/", "b">>),
      Some(<<"a", "/">>) }

\* Lines 64-73 and 92-101: one Release per raw entry, in order.
Normalize(raw, owner, name) ==
    [i \in 1..Len(raw) |->
        [version |-> parse_version_from_tag(raw[i].tag_name),
         repo |-> RepoId(owner, name),
         published_at |-> raw[i].published_at]]

\* A list_releases whose primary fetch is awaited with `?`.
PrimaryOutcomeFatal(resp) ==
    [fatal |-> ~resp.ok, warn |-> FALSE,
     releases |-> Normalize(resp.releases, PRIMARY_REPO_OWNER, PRIMARY_REPO_NAME)]

\* Lines 61-78: the primary fetch's contribution; an error is only warned of.
PrimaryOutcome(resp) ==
    IF resp.ok
    THEN [fatal |-> FALSE, warn |-> FALSE,
          releases |-> Normalize(resp.releases, PRIMARY_REPO_OWNER, PRIMARY_REPO_NAME)]
    ELSE [fatal |-> FALSE, warn |-> TRUE, releases |-> <<>>]

\* A list_releases that treats the secondary fetch like the primary one.
SecondaryOutcomeTolerant(resp, owner, name) ==
    [fatal |-> FALSE, releases |-> Normalize(resp.releases, owner, name)]

\* Lines 89-101: the secondary fetch's contribution; an error is returned (`?`).
SecondaryOutcome(resp, owner, name) ==
    IF resp.ok
    THEN [fatal |-> FALSE, releases |-> Normalize(resp.releases, owner, name)]
    ELSE [fatal |-> TRUE, releases |-> <<>>]

\* Lines 81-85: the override, parsed, or the default repository.
ResolveSecondary(override) ==
    IF override.some
    THEN parse_repo_string(override.s)
    ELSE [ok |-> TRUE, owner |-> DEFAULT_REPO_OWNER, name |-> DEFAULT_REPO_NAME]

\* A list_releases that fetches the secondary repository unconditionally.
SecondaryDiffersAlways(owner, name) == TRUE

\* Line 88.
SecondaryDiffers(owner, name) ==
    owner # PRIMARY_REPO_OWNER \/ name # PRIMARY_REPO_NAME

\* A merge that drops a secondary release whose version the primary has.
MergeDedup(all, more) ==
    all \o SelectSeq(more, LAMBDA r :
                 \A i \in 1..Len(all) : all[i].version # r.version)

\* Lines 92-101: the pushes onto all_releases.
Merge(all, more) == all \o more

LOk(v) == [kind |-> "Ok", err |-> "", value |-> v]
LErr(e) == [kind |-> "Err", err |-> e, value |-> <<>>]

\* A list_releases without the check of lines 104-106.
FinishWithoutEmptyCheck(all) == LOk(SortBy(all))

\* Lines 104-122: the empty check, the sort, the return.
Finish(all) ==
    IF all = <<>> THEN LErr("NoReleasesFound") ELSE LOk(SortBy(all))

\* A client that sends a request again when it gets no answer at once.
FetchRetrying(log, owner, name) ==
    Append(Append(log, RepoId(owner, name)), RepoId(owner, name))

\* fetch_releases_from_repo up to its first await (lines 131-137): one GET
\* for the repository's releases is sent.
Fetch(log, owner, name) == Append(log, RepoId(owner, name))

\* Lines 54-62: the call, up to the await of the primary fetch.
ListCall ==
    /\ l_pc = "idle"
    /\ \E o \in Overrides : repo_override' = o
    /\ requests' = Fetch(requests, PRIMARY_REPO_OWNER, PRIMARY_REPO_NAME)
    /\ l_pc' = "primary"
    /\ UNCHANGED <<all_releases, responses, warned, l_result>>
    /\ UNCHANGED othersL

\* Lines 61-90: the primary fetch completes; its releases are pushed, the
\* secondary repository is resolved, and either its fetch is issued or (it is
\* the primary repository) the call finishes.
PrimaryResponse ==
    /\ l_pc = "primary"
    /\ \E resp \in FetchOutcomes :
         LET out == PrimaryOutcome(resp)
             sec == ResolveSecondary(repo_override)
         IN
         /\ responses' = Append(responses, resp)
         /\ warned' = out.warn
         /\ IF out.fatal
            THEN /\ l_result' = LErr("FetchError")
                 /\ l_pc' = "done"
                 /\ UNCHANGED <<all_releases, requests>>
            ELSE IF ~sec.ok
            THEN /\ l_result' = LErr("InvalidSourceFormat")
                 /\ all_releases' = out.releases
                 /\ l_pc' = "done"
                 /\ UNCHANGED requests
            ELSE IF SecondaryDiffers(sec.owner, sec.name)
            THEN /\ requests' = Fetch(requests, sec.owner, sec.name)
                 /\ all_releases' = out.releases
                 /\ l_pc' = "secondary"
                 /\ UNCHANGED l_result
            ELSE /\ l_result' = Finish(out.releases)
                 /\ all_releases' = out.releases
                 /\ l_pc' = "done"
                 /\ UNCHANGED requests
    /\ UNCHANGED repo_override
    /\ UNCHANGED othersL

\* Lines 89-122: the secondary fetch completes; an error is returned, else
\* its releases are pushed and the call finishes.
SecondaryResponse ==
    /\ l_pc = "secondary"
    /\ \E resp \in FetchOutcomes :
         LET sec == ResolveSecondary(repo_override)
             out == SecondaryOutcome(resp, sec.owner, sec.name)
         IN
         /\ responses' = Append(responses, resp)
         /\ IF out.fatal
            THEN /\ l_result' = LErr("FetchError")
                 /\ UNCHANGED all_releases
            ELSE /\ all_releases' = Merge(all_releases, out.releases)
                 /\ l_result' = Finish(Merge(all_releases, out.releases))
    /\ l_pc' = "done"
    /\ UNCHANGED <<repo_override, requests, warned>>
    /\ UNCHANGED othersL

\* No updater process is running.
IdleR == InitR /\ platform = "unix"

InitList == IdleR /\ IdleL /\ IdleA /\ IdleV /\ IdleT

NextList ==
    \/ ListCall
    \/ PrimaryResponse
    \/ SecondaryResponse

SpecList == InitList /\ [][NextList]_vars

(***************************************************************************)
(* Claims about list_releases.                                             *)
(***************************************************************************)
PrimaryId == <<"o", "p", "e", "n", "a", "i", "/", "c", "o", "d", "e", "x">>
DefaultId == <<"i", "a", "i", "n", "l", "o", "w", "e", "/", "c", "o", "d", "e", "x">>

\* The "owner/project" the caller asked for as the secondary source.
SecondaryId == IF repo_override.some THEN repo_override.s ELSE DefaultId

\* The records a source's raw entries stand for, tagged with its identifier.
Expected(raw, id) ==
    [i \in 1..Len(raw) |->
        [version |-> parse_version_from_tag(raw[i].tag_name),
         repo |-> id,
         published_at |-> raw[i].published_at]]

Count(x, seq) == Cardinality({ i \in 1..Len(seq) : seq[i] = x })

IsPermutation(a, b) ==
    /\ Len(a) = Len(b)
    /\ \A i \in 1..Len(a) : Count(a[i], a) = Count(a[i], b)

ReturnedOk == l_pc = "done" /\ l_result.kind = "Ok"

\* Both fetches completed (the secondary source is distinct from the primary).
BothFetched == l_pc = "done" /\ Len(responses) = 2

\* C4: a failed fetch of the primary source is non-fatal: the call goes on
\* (a fetch error it returns is the secondary's), and when the distinct
\* secondary fetch succeeds with at least one release, list_releases returns
\* Ok and the result consists of exactly the secondary source's releases.
C4_PrimaryFailureNonFatal ==
    (Len(responses) >= 1 /\ ~responses[1].ok)
    => /\ l_result = LErr("FetchError") =>
             (Len(responses) = 2 /\ ~responses[2].ok)
       /\ (/\ BothFetched
           /\ responses[2].ok
           /\ responses[2].releases # <<>>)
          => /\ l_result.kind = "Ok"
             /\ IsPermutation(l_result.value,
                              Expected(responses[2].releases, SecondaryId))

\* C4's case: the primary fetch failed, the secondary returned two releases.
C4_Witness ==
    /\ BothFetched
    /\ ~responses[1].ok
    /\ warned
    /\ Len(responses[2].releases) = 2
    /\ l_result.kind = "Ok"
    /\ Len(l_result.value) = 2

\* C5: a failed fetch of a secondary source that differs from the primary
\* makes list_releases return the fetch error and no release list, even when
\* the primary fetch had returned releases.
C5_SecondaryFailureFatal ==
    (BothFetched /\ ~responses[2].ok)
    => l_result = LErr("FetchError")

\* C5's case: the primary returned releases and the secondary fetch failed.
C5_Witness ==
    /\ BothFetched
    /\ responses[1].ok
    /\ Len(responses[1].releases) = 2
    /\ ~responses[2].ok
    /\ l_result.kind = "Err"

\* C6: when the resolved secondary source is identical to the primary,
\* list_releases issues no second fetch, and a result contains each primary
\* release exactly once.
C6_IdenticalSecondarySkipped ==
    (l_pc \in {"secondary", "done"} /\ SecondaryId = PrimaryId)
    => /\ l_pc = "done"
       /\ requests = <<PrimaryId>>
       /\ Len(responses) = 1
       /\ l_result.kind = "Ok" <=> (responses[1].ok /\ responses[1].releases # <<>>)
       /\ l_result.kind = "Ok" =>
             IsPermutation(l_result.value,
                           Expected(responses[1].releases, PrimaryId))

\* C6's case: the override names the primary repository, which returned two
\* releases.
C6_Witness ==
    /\ l_pc = "done"
    /\ repo_override.some
    /\ SecondaryId = PrimaryId
    /\ l_result.kind = "Ok"
    /\ Len(l_result.value) = 2
    /\ Len(requests) = 1

\* The ordering rule: versions that parse come first, in descending semantic
\* order; those that do not parse follow, in reverse lexical order.
SortedAsSpecified(v) ==
    \A i, j \in 1..Len(v) :
        i < j =>
            LET a == Parsed[v[i].version]
                b == Parsed[v[j].version]
            IN /\ b.ok => a.ok
               /\ (a.ok /\ b.ok) => CmpVersion(a, b) # "Less"
               /\ (~a.ok /\ ~b.ok) => CmpStr(v[i].version, v[j].version) # "Less"

\* C7: the list returned by list_releases is ordered by the ordering rule,
\* for every mix of valid and invalid version strings from both sources.
C7_ResultSorted ==
    ReturnedOk => SortedAsSpecified(l_result.value)

\* C7's case: a result with two different valid versions and two different
\* invalid ones, which the sort had to reorder.
C7_Witness ==
    /\ ReturnedOk
    /\ Len(l_result.value) = 4
    /\ l_result.value # all_releases
    /\ Parsed[l_result.value[1].version].ok
    /\ Parsed[l_result.value[2].version].ok
    /\ l_result.value[1].version # l_result.value[2].version
    /\ ~Parsed[l_result.value[3].version].ok
    /\ ~Parsed[l_result.value[4].version].ok
    /\ l_result.value[3].version # l_result.value[4].version

\* Exactly one '/', with something on both sides of it.
TwoNonEmptyParts(str) ==
    /\ Cardinality({ i \in 1..Len(str) : str[i] = "/" }) = 1
    /\ str[1] # "/"
    /\ str[Len(str)] # "/"

\* C8: parsing an override source string fails with InvalidSourceFormat
\* exactly when the string does not split on '/' into exactly two non-empty
\* parts; otherwise the call goes on with (owner, project) in order.
C8_ParseAcceptsExactlyTwoNonEmptyParts ==
    (repo_override.some /\ l_pc \in {"secondary", "done"})
    => /\ (l_result = LErr("InvalidSourceFormat"))
              <=> ~TwoNonEmptyParts(repo_override.s)
       /\ TwoNonEmptyParts(repo_override.s) =>
              /\ parse_repo_string(repo_override.s).ok
              /\ RepoId(parse_repo_string(repo_override.s).owner,
                        parse_repo_string(repo_override.s).name) = repo_override.s

\* The contribution of the primary source: nothing when its fetch failed.
PrimaryRaw == IF responses[1].ok THEN responses[1].releases ELSE <<>>

\* C9: list_releases never returns Ok with an empty list; whenever no fatal
\* error occurred and both contributions are empty, it fails with
\* NoReleasesFound.
C9_NeverOkEmpty ==
    l_pc = "done" =>
        /\ l_result.kind = "Ok" => l_result.value # <<>>
        /\ (/\ ResolveSecondary(repo_override).ok
            /\ PrimaryRaw = <<>>
            /\ Len(responses) = 2 => (responses[2].ok /\ responses[2].releases = <<>>))
           => l_result = LErr("NoReleasesFound")

\* C9's case: the primary fetch failed and the secondary was skipped as
\* identical to the primary.
C9_Witness ==
    /\ l_pc = "done"
    /\ ~responses[1].ok
    /\ Len(requests) = 1
    /\ l_result = LErr("NoReleasesFound")

\* C10: on success with a secondary source distinct from the primary, the
\* result is a permutation of all raw entries of both sources, each tagged
\* with the identifier of the source it came from; nothing is dropped or
\* de-duplicated.
C10_ResultIsPermutationOfBoth ==
    (ReturnedOk /\ Len(responses) = 2)
    => /\ Len(l_result.value) = Len(PrimaryRaw) + Len(responses[2].releases)
       /\ IsPermutation(l_result.value,
                        Expected(PrimaryRaw, PrimaryId)
                            \o Expected(responses[2].releases, SecondaryId))

\* C10's case: both sources publish the same version, and both records are
\* in the result.
C10_Witness ==
    /\ ReturnedOk
    /\ Len(responses) = 2
    /\ Len(l_result.value) = 4
    /\ \E i, j \in 1..4 :
          /\ l_result.value[i].version = l_result.value[j].version
          /\ l_result.value[i].repo = PrimaryId
          /\ l_result.value[j].repo = SecondaryId
          /\ SecondaryId # PrimaryId

(***************************************************************************)
(* find_suitable_asset (lines 209-230).                                    *)
(***************************************************************************)
\* Largest number of assets attached to a release.
MaxAssets == 2

\* str::contains.
Contains(s, sub) ==
    \E i \in 0..(Len(s) - Len(sub)) : SubSeq(s, i + 1, i + Len(sub)) = sub

\* Suffixes of asset names.
ExtZst == <<".", "z", "s", "t">>
ExtTarGz == <<".", "t", "a", "r", ".", "g", "z">>
ExtZip == <<".", "z", "i", "p">>
ExtExeZst == <<".", "e", "x", "e", ".", "z", "s", "t">>
ExtExeZip == <<".", "e", "x", "e", ".", "z", "i", "p">>
ExtExeTarGz == <<".", "e", "x", "e", ".", "t", "a", "r", ".", "g", "z">>

\* Target triples, shortened to the token that tells the platform class, and
\* the assets a release may carry: for each class one asset per suffix, an
\* asset of the windows class without ".exe", the bare windows executable,
\* and an asset of a third platform.
Windows == <<"w", "i", "n", "d", "o", "w", "s">>
TripleLinux == <<"l", "i", "n", "u", "x">>
TripleWindows == <<"p", "c", "-">> \o Windows
TripleMac == <<"m", "a", "c">>
Triples == {TripleLinux, TripleWindows}

Stem == <<"c", "x", "-">>
ReleaseAssetNames ==
    { Stem \o TripleLinux \o ExtZst,
      Stem \o TripleLinux \o ExtTarGz,
      Stem \o TripleLinux \o ExtZip,
      Stem \o TripleWindows \o ExtExeZst,
      Stem \o TripleWindows \o ExtExeZip,
      Stem \o TripleWindows \o ExtExeTarGz,
      Stem \o TripleWindows \o ExtZst,
      Stem \o TripleWindows \o <<".", "e", "x", "e">>,
      Stem \o TripleMac \o ExtZst }

AssetLists ==
    UNION { [1..n -> ReleaseAssetNames] : n \in 0..MaxAssets }

SomeAt(i) == [some |-> TRUE, at |-> i]
NoneAt == [some |-> FALSE, at |-> 0]

\* A selector that also takes the bare executable of a windows release.
preferred_extensions_with_bare_exe(triple) ==
    IF Contains(triple, Windows)
    THEN <<ExtExeZst, ExtExeZip, ExtExeTarGz, <<".", "e", "x", "e">>>>
    ELSE <<ExtZst, ExtTarGz>>

\* Lines 214-218.
preferred_extensions(triple) ==
    IF Contains(triple, Windows)
    THEN <<ExtExeZst, ExtExeZip, ExtExeTarGz>>
    ELSE <<ExtZst, ExtTarGz>>

\* Lines 221-223: assets.iter().find(..), the index of the first asset whose
\* name contains the triple and ends with ext (0: none).
FindAsset(list, triple, ext) ==
    FirstMatch({ i \in 1..Len(list) :
                   Contains(list[i], triple) /\ EndsWith(list[i], ext) })

\* Lines 220-229: the loop over the extensions.
RECURSIVE TryExtensions(_, _, _)
TryExtensions(list, triple, exts) ==
    IF exts = <<>> THEN NoneAt
    ELSE LET i == FindAsset(list, triple, exts[1])
         IN IF i # 0 THEN SomeAt(i)
            ELSE TryExtensions(list, triple, Tail(exts))

\* A selector that scans the assets once and takes the first with any of the
\* extensions.
find_suitable_asset_in_list_order(list, triple) ==
    LET exts == preferred_extensions(triple)
        i == FirstMatch({ k \in 1..Len(list) :
                            /\ Contains(list[k], triple)
                            /\ \E e \in 1..Len(exts) : EndsWith(list[k], exts[e]) })
    IN IF i # 0 THEN SomeAt(i) ELSE NoneAt

find_suitable_asset(list, triple) ==
    TryExtensions(list, triple, preferred_extensions(triple))

\* The caller passes a release's assets and the current target triple.
InitSelect ==
    /\ a_pc = "called"
    /\ assets \in AssetLists
    /\ target_triple \in Triples
    /\ selected = NoneAt
    /\ InitR /\ platform = "unix"
    /\ IdleL /\ IdleV /\ IdleT

FindSuitableAsset ==
    /\ a_pc = "called"
    /\ selected' = find_suitable_asset(assets, target_triple)
    /\ a_pc' = "returned"
    /\ UNCHANGED <<assets, target_triple>>
    /\ UNCHANGED othersA

NextSelect == FindSuitableAsset

SpecSelect == InitSelect /\ [][NextSelect]_vars

(***************************************************************************)
(* Claims about find_suitable_asset.                                       *)
(***************************************************************************)
\* The suffixes of a platform class, best first.
SuffixPriority ==
    IF Contains(target_triple, Windows)
    THEN <<ExtExeZst, ExtExeZip, ExtExeTarGz>>
    ELSE <<ExtZst, ExtTarGz>>

\* The assets that contain the target token and end with the k-th suffix.
Candidates(k) ==
    { i \in 1..Len(assets) :
        /\ Contains(assets[i], target_triple)
        /\ EndsWith(assets[i], SuffixPriority[k]) }

MatchedSuffixes == { k \in 1..Len(SuffixPriority) : Candidates(k) # {} }

Opened(p) == p \in DOMAIN ino

\* Nothing was written: the directory and the files are as before the call.
NothingWritten ==
    /\ DOMAIN dir = {CurrentExe}
    /\ dir[CurrentExe] = OldInode
    /\ DOMAIN ino = {OldInode}
    /\ ino[OldInode].content = OldBinary

TarAsset(p) == EndsWith(asset[p], ExtTarGz) /\ bytes[p].fmt = "tar.gz"
ZipAsset(p) == EndsWith(asset[p], ExtZip) /\ bytes[p].fmt = "zip"

\* The text after the last '/' of a name.
AfterLastSlash(name) ==
    LET slashes == { i \in 1..Len(name) : name[i] = "/" }
    IN IF slashes = {} THEN name
       ELSE SubSeq(name, (CHOOSE i \in slashes : \A j \in slashes : j <= i) + 1,
                   Len(name))

\* A name without the '/' characters it ends with.
RECURSIVE StripTrailingSlashes(_)
StripTrailingSlashes(name) ==
    IF name # <<>> /\ name[Len(name)] = "/"
    THEN StripTrailingSlashes(SubSeq(name, 1, Len(name) - 1))
    ELSE name

\* The base name of a path as basename(1) gives it.
BaseName(name) == AfterLastSlash(StripTrailingSlashes(name))

LooksLikeBinary(base, exact) ==
    base = exact \/ StartsWith(base, <<"c", "o", "d", "e", "x", "-">>)

\* The entries of process 1's archive that match, under one reading of "base
\* file name" for both formats, and under the reading each extractor has.
MatchingByBaseName ==
    { k \in 1..Len(bytes[1].entries) :
        LooksLikeBinary(BaseName(bytes[1].entries[k].name),
                        IF TarAsset(1) THEN EntryCodex ELSE EntryCodexExe) }

MatchingPerFormat ==
    { k \in 1..Len(bytes[1].entries) :
        IF TarAsset(1)
        THEN LooksLikeBinary(BaseName(bytes[1].entries[k].name), EntryCodex)
        ELSE LooksLikeBinary(AfterLastSlash(bytes[1].entries[k].name), EntryCodexExe) }

\* The extractor did what is claimed, given the entries that match: the
\* first one's contents are what is written, unchanged; with none the call
\* fails with BinaryNotFoundInArchive (unless env::current_exe failed before)
\* and nothing is written.
FirstMatchExtracted(matching) ==
    /\ matching = {} =>
          /\ ~Opened(1)
          /\ NothingWritten
          /\ pc[1] \in {"bytes", "done"}
          /\ pc[1] = "done" => result[1] \in {"BinaryNotFoundInArchive", "IoError"}
    /\ matching # {} =>
          /\ result[1] # "BinaryNotFoundInArchive"
          /\ Opened(1) =>
                \E k \in matching :
                    /\ \A j \in matching : k <= j
                    /\ buf[1] = bytes[1].entries[k].data
                    /\ pc[1] \in {"written", "stat", "chmod", "backed", "swapped"}
                          => ino[1].content = bytes[1].entries[k].data

SupportedSuffix(name) ==
    EndsWith(name, ExtZst) \/ EndsWith(name, ExtTarGz) \/ EndsWith(name, ExtZip)

\* C13: extraction dispatches on the asset name's suffix alone (.zst: the
\* whole decompressed payload is the binary; .tar.gz: tar scan; .zip: zip
\* scan), whatever the bytes are; a name with any other suffix fails with
\* UnsupportedAssetFormat (unless env::current_exe failed before) and nothing
\* is written to the temporary path or the executable's path.
C13_DispatchOnSuffixOnly ==
    asset[1] # NoAsset =>
        /\ Opened(1) =>
              \/ /\ EndsWith(asset[1], ExtZst)
                 /\ bytes[1].fmt = "zst"
                 /\ buf[1] = bytes[1].data
              \/ /\ ~EndsWith(asset[1], ExtZst)
                 /\ TarAsset(1)
                 /\ \E k \in 1..Len(bytes[1].entries) : buf[1] = bytes[1].entries[k].data
              \/ /\ ~EndsWith(asset[1], ExtZst)
                 /\ ~EndsWith(asset[1], ExtTarGz)
                 /\ ZipAsset(1)
                 /\ \E k \in 1..Len(bytes[1].entries) : buf[1] = bytes[1].entries[k].data
        /\ result[1] = "UnsupportedAssetFormat" <=>
              (pc[1] = "done" /\ ~SupportedSuffix(asset[1]) /\ result[1] # "IoError")
        /\ ~SupportedSuffix(asset[1]) =>
              /\ pc[1] \in {"bytes", "done"}
              /\ ~Opened(1)
              /\ NothingWritten

\* C13's case: an asset named "c.exe" whose bytes are a valid zstd stream
\* fails with UnsupportedAssetFormat, nothing written.
C13_Witness ==
    /\ pc[1] = "done"
    /\ asset[1] = NameExe
    /\ bytes[1].fmt = "zst"
    /\ result[1] = "UnsupportedAssetFormat"
    /\ NothingWritten

\* C14: on windows the replace steps happen in this order: the executable is
\* renamed to the backup path, the temporary file is renamed onto the
\* executable's path, the backup is deleted.  The call returns Ok exactly
\* when both renames succeeded: a failed rename is returned as an error, a
\* failed delete is not, and the backup file then remains.
C14_WindowsBackupSwapDelete ==
    platform = "windows" =>
        /\ pc[1] \in {"call", "bytes", "opened", "written"} =>
              /\ dir[CurrentExe] = OldInode
              /\ ~Exists(BackupPath)
        /\ pc[1] = "backed" =>
              /\ ~Exists(CurrentExe)
              /\ Exists(BackupPath) /\ dir[BackupPath] = OldInode
              /\ Exists(TempPath) /\ Content(TempPath) = buf[1]
        /\ pc[1] = "swapped" =>
              /\ Exists(CurrentExe) /\ dir[CurrentExe] # OldInode
              /\ Content(CurrentExe) = buf[1]
              /\ ~Exists(TempPath)
              /\ Exists(BackupPath) /\ dir[BackupPath] = OldInode
        /\ pc[1] = "done" =>
              /\ result[1] = "Ok" <=>
                    (Exists(CurrentExe) /\ dir[CurrentExe] # OldInode)
              /\ result[1] = "Ok" =>
                    /\ Content(CurrentExe) = buf[1]
                    /\ ~Exists(TempPath)
                    /\ Exists(BackupPath) =>
                          (dir[BackupPath] = OldInode /\ Content(BackupPath) = OldBinary)
              /\ (result[1] # "Ok" /\ Exists(BackupPath)) =>
                    /\ ~Exists(CurrentExe)
                    /\ Exists(TempPath)
                    /\ dir[BackupPath] = OldInode

\* C14's case: both renames succeeded and the delete failed: Ok, and the
\* backup is still there.
C14_Witness ==
    /\ platform = "windows"
    /\ pc[1] = "done"
    /\ result[1] = "Ok"
    /\ Content(CurrentExe) = buf[1]
    /\ Exists(BackupPath)
    /\ Content(BackupPath) = OldBinary

\* C15: on unix a successful call has set the temporary file's mode to 0o755
\* before the swap and renamed it directly onto the executable's path:
\* afterwards that path holds exactly the extracted bytes, with the
\* executable bits set, and the temporary file is gone.
C15_PosixChmodThenRename ==
    platform = "unix" =>
        /\ ~Exists(BackupPath)
        /\ pc[1] = "chmod" =>
              /\ Exists(TempPath)
              /\ ino[dir[TempPath]].mode = Mode755
              /\ dir[CurrentExe] = OldInode
        /\ (pc[1] = "done" /\ result[1] = "Ok") =>
              /\ renames = <<1>>
              /\ Exists(CurrentExe)
              /\ dir[CurrentExe] # OldInode
              /\ Extract(asset[1], bytes[1]) = Ok(Content(CurrentExe))
              /\ ino[dir[CurrentExe]].mode = Mode755
              /\ ~Exists(TempPath)

\* C15's case: a binary taken from a tar archive was installed.
C15_Witness ==
    /\ platform = "unix"
    /\ pc[1] = "done"
    /\ result[1] = "Ok"
    /\ TarAsset(1)
    /\ Content(CurrentExe) = NewA
    /\ ino[dir[CurrentExe]].mode = Mode755
    /\ ~Exists(TempPath)

(***************************************************************************)
(* parse_version_from_tag (lines 152-162) on its own.                      *)
(***************************************************************************)
\* Longest tag body drawn character by character.
MaxTagLen == 3

RustV == <<"r", "u", "s", "t", "-", "v">>
V == <<"v">>
TagChars == {"v", "r", "1", "."}
ShortStrings(n) == UNION { [1..k -> TagChars] : k \in 0..n }

\* The tags given: nothing, "v" or "rust-v", followed by a short string or by
\* "rust-v" and at most one more character.
TagPrefixes == {<<>>, V, RustV}
TagRests == ShortStrings(MaxTagLen) \cup { RustV \o t : t \in ShortStrings(1) }

InitTag ==
    /\ v_pc = "called"
    /\ tag_prefix \in TagPrefixes
    /\ tag_rest \in TagRests
    /\ version = <<>>
    /\ InitR /\ platform = "unix"
    /\ IdleL /\ IdleA /\ IdleT

ParseVersionFromTag ==
    /\ v_pc = "called"
    /\ version' = parse_version_from_tag(tag_prefix \o tag_rest)
    /\ v_pc' = "returned"
    /\ UNCHANGED <<tag_prefix, tag_rest>>
    /\ UNCHANGED othersV

NextTag == ParseVersionFromTag

SpecTag == InitTag /\ [][NextTag]_vars

(***************************************************************************)
(* Claims about parse_version_from_tag.                                    *)
(***************************************************************************)
\* C16: tag normalization strips a "rust-v" prefix if present, otherwise a
\* "v" prefix if present, otherwise nothing, and at most one prefix per call:
\* what is returned is the tag without its one leading prefix, and for every
\* T that starts with neither prefix, "rust-v"+T, "v"+T and T all give T.
C16_StripsOnePrefix ==
    v_pc = "returned" =>
        LET tag == tag_prefix \o tag_rest IN
        /\ (~StartsWith(tag_rest, RustV) /\ ~StartsWith(tag_rest, V))
              => version = tag_rest
        /\ \E p \in {<<>>, V, RustV} :
              /\ tag = p \o version
              /\ p = RustV <=> StartsWith(tag, RustV)
              /\ p = V <=> StartsWith(tag, V)

\* C16's case: "rust-v1.1" gives "1.1".
C16_Witness ==
    /\ v_pc = "returned"
    /\ tag_prefix = RustV
    /\ tag_rest = <<"1", ".", "1">>
    /\ version = <<"1", ".", "1">>

(***************************************************************************)
(* Claims about the requests of list_releases.                             *)
(***************************************************************************)
\* C17: within one list_releases call the fetches are sequential and never
\* retried: at most one request per source, two in all; the first request is
\* the primary's; the secondary's is issued only after the primary's has
\* completed, successfully or not; at most one request is in flight.
C17_SequentialNoRetry ==
    /\ Len(requests) <= 2
    /\ l_pc = "idle" => requests = <<>>
    /\ l_pc # "idle" => (Len(requests) >= 1 /\ requests[1] = PrimaryId)
    /\ Len(requests) = 2 =>
          /\ requests[2] = SecondaryId
          /\ requests[2] # requests[1]
          /\ Len(responses) >= 1
    /\ l_pc \in {"primary", "secondary"} => Len(requests) = Len(responses) + 1
    /\ l_pc = "done" => Len(requests) = Len(responses)

\* C17's case: the primary fetch failed and was not tried again; the request
\* to the secondary source is in flight.
C17_Witness ==
    /\ l_pc = "secondary"
    /\ Len(responses) = 1
    /\ ~responses[1].ok
    /\ requests = <<PrimaryId, SecondaryId>>

(***************************************************************************)
(* LimitTracker (codex-rs/core/src/limit_tracker.rs).                      *)
(***************************************************************************)
\* The clock is read to the second; the model's instants are the full hours
\* up to MaxHours and the second before each.
MaxHours == 6
Times == { h * 3600 - d : h \in 0..MaxHours, d \in {0, 1} } \cap Nat

\* A delay of six hours.
LIMIT_RETRY_DELAY_SIX_HOURS == 6 * 60 * 60

\* Line 15.
LIMIT_RETRY_DELAY == 5 * 60 * 60

\* The decimal digits of a u64, as serde_json writes it.
RECURSIVE Decimal(_)
Decimal(n) ==
    IF n < 10 THEN <<Ascii[Code("0") + n]>>
    ELSE Decimal(n \div 10) \o <<Ascii[Code("0") + (n % 10)]>>

\* serde_json::to_string(&LimitState { hit_at }) (line 46): {"hit_at":N}
JsonOpen == <<"{", "\"", "h", "i", "t", "_", "a", "t", "\"", ":">>
JsonClose == <<"}">>
ToJson(hit_at) == JsonOpen \o Decimal(hit_at) \o JsonClose

\* serde_json::from_str::<LimitState> (line 91) on the texts the file can
\* hold here: an object with the one field hit_at, a JSON number (digits
\* without a leading zero); the numbers written here are clock readings of
\* at most five digits, which fit a u64.
FromJson(content) ==
    LET digits == SubSeq(content, Len(JsonOpen) + 1, Len(content) - 1)
    IN IF /\ Len(content) >= Len(JsonOpen) + 2
          /\ StartsWith(content, JsonOpen)
          /\ EndsWith(content, JsonClose)
          /\ IsNumeric(digits)
       THEN [ok |-> TRUE, hit_at |-> ToNat(digits)]
       ELSE [ok |-> FALSE, hit_at |-> 0]

\* The file at limit_file.
Absent == [exists |-> FALSE, readable |-> FALSE, content |-> <<>>]
Unreadable == [exists |-> TRUE, readable |-> FALSE, content |-> <<>>]
FileWith(text) == [exists |-> TRUE, readable |-> TRUE, content |-> text]
Garbage == <<"x">>

\* read_limit_state (lines 83-94): Ok(None), Ok(Some(state)) or an error.
read_limit_state(file) ==
    IF ~file.exists THEN [ok |-> TRUE, some |-> FALSE, hit_at |-> 0]
    ELSE IF ~file.readable THEN [ok |-> FALSE, some |-> FALSE, hit_at |-> 0]
    ELSE LET state == FromJson(file.content)
         IN IF state.ok THEN [ok |-> TRUE, some |-> TRUE, hit_at |-> state.hit_at]
            ELSE [ok |-> FALSE, some |-> FALSE, hit_at |-> 0]

\* should_retry_chatgpt (lines 55-67) when the clock reads t; hit_at is a
\* clock reading of this model, so the u64 sum of line 63 does not wrap.
should_retry_chatgpt(file, t) ==
    LET r == read_limit_state(file)
    IN IF r.ok /\ r.some
       THEN t >= r.hit_at + LIMIT_RETRY_DELAY
       ELSE TRUE

\* A has_active_limit that takes a state it cannot read for an active limit.
has_active_limit_unless_absent(file, t) ==
    ~read_limit_state(file).ok \/ ~should_retry_chatgpt(file, t)

\* has_active_limit (lines 79-81).
has_active_limit(file, t) == ~should_retry_chatgpt(file, t)

NoAnswer == [fn |-> "none", value |-> FALSE]
Answer(f, v) == [fn |-> f, value |-> v]
NoHit == [some |-> FALSE, first |-> 0, last |-> 0]

\* LimitTracker::new on a codex home whose limit file, if there is one, was
\* not written by record_limit_hit.
InitTracker ==
    /\ t_pc = "ready"
    /\ now \in Times
    /\ limit_file \in {Absent, Unreadable, FileWith(Garbage)}
    /\ answer = NoAnswer
    /\ hit_log = NoHit
    /\ InitR /\ platform = "unix"
    /\ IdleL /\ IdleA /\ IdleV

\* The system clock moves, forwards or (it is not monotonic) backwards.
Tick ==
    /\ t_pc = "ready"
    /\ \E t \in Times \ {now} : now' = t
    /\ answer' = NoAnswer
    /\ UNCHANGED <<t_pc, limit_file, hit_log>>
    /\ UNCHANGED othersT

\* record_limit_hit (lines 39-51) returns Ok.
RecordLimitHit ==
    /\ t_pc = "ready"
    /\ limit_file' = FileWith(ToJson(now))
    /\ hit_log' = [some |-> TRUE,
                   first |-> IF hit_log.some THEN hit_log.first ELSE now,
                   last |-> now]
    /\ answer' = Answer("record_limit_hit", TRUE)
    /\ UNCHANGED <<t_pc, now>>
    /\ UNCHANGED othersT

\* Line 48: fs::write fails, at its open (the file is as it was) or after it
\* (the file was created or truncated and is empty).
RecordLimitHitFails ==
    /\ t_pc = "ready"
    /\ \/ UNCHANGED <<limit_file, hit_log>>
       \/ limit_file' = FileWith(<<>>) /\ hit_log' = NoHit
    /\ answer' = Answer("record_limit_hit", FALSE)
    /\ UNCHANGED <<t_pc, now>>
    /\ UNCHANGED othersT

\* clear_limit (lines 71-76) returns Ok: the file, if there was one, is removed.
ClearLimit ==
    /\ t_pc = "ready"
    /\ limit_file' = Absent
    /\ hit_log' = NoHit
    /\ answer' = Answer("clear_limit", TRUE)
    /\ UNCHANGED <<t_pc, now>>
    /\ UNCHANGED othersT

\* Line 73: fs::remove_file fails.
ClearLimitFails ==
    /\ t_pc = "ready"
    /\ limit_file.exists
    /\ answer' = Answer("clear_limit", FALSE)
    /\ UNCHANGED <<t_pc, now, limit_file, hit_log>>
    /\ UNCHANGED othersT

ShouldRetryChatgpt ==
    /\ t_pc = "ready"
    /\ answer' = Answer("should_retry_chatgpt", should_retry_chatgpt(limit_file, now))
    /\ UNCHANGED <<t_pc, now, limit_file, hit_log>>
    /\ UNCHANGED othersT

HasActiveLimit ==
    /\ t_pc = "ready"
    /\ answer' = Answer("has_active_limit", has_active_limit(limit_file, now))
    /\ UNCHANGED <<t_pc, now, limit_file, hit_log>>
    /\ UNCHANGED othersT

NextTracker ==
    \/ Tick
    \/ RecordLimitHit
    \/ RecordLimitHitFails
    \/ ClearLimit
    \/ ClearLimitFails
    \/ ShouldRetryChatgpt
    \/ HasActiveLimit

SpecTracker == InitTracker /\ [][NextTracker]_vars

(***************************************************************************)
(* Claims about LimitTracker.                                              *)
(***************************************************************************)
FiveHours == 5 * 3600

C19_NoRecordMeansRetry ==
    /\ answer = Answer("clear_limit", TRUE) => ~limit_file.exists
    /\ ~hit_log.some =>
          /\ answer.fn = "should_retry_chatgpt" => answer.value
          /\ answer.fn = "has_active_limit" => ~answer.value
    /\ has_active_limit(limit_file, now) <=> ~should_retry_chatgpt(limit_file, now)
    /\ answer.fn = "has_active_limit" =>
          (answer.value <=> ~should_retry_chatgpt(limit_file, now))

\* C19's case: a limit was recorded and cleared, and there is no active limit.
C19_Witness ==
    /\ ~limit_file.exists
    /\ ~hit_log.some
    /\ answer = Answer("has_active_limit", FALSE)

\* C20: the stored hit_at is the time the usage limit was first reached:
\* record_limit_hit on an existing record does not move hit_at forward, and
\* the five hours are counted from the first hit.
C20_HitAtIsFirstHit ==
    hit_log.some =>
        /\ read_limit_state(limit_file).hit_at = hit_log.first
        /\ answer.fn = "should_retry_chatgpt" =>
              (answer.value <=> now >= hit_log.first + FiveHours)

(***************************************************************************)
(* The update: the asset find_suitable_asset returned is the one given to  *)
(* download_and_replace_binary.                                            *)
(***************************************************************************)
\* Lines 232-244 with the asset that was selected: the download succeeds
\* with some body.
DownloadSelected(p) ==
    /\ a_pc = "returned"
    /\ selected.some
    /\ pc[p] = "call"
    /\ asset' = [asset EXCEPT ![p] = assets[selected.at]]
    /\ \E b \in Bodies : bytes' = [bytes EXCEPT ![p] = b]
    /\ pc' = [pc EXCEPT ![p] = "bytes"]
    /\ UNCHANGED <<platform, dir, ino, fd, buf, result, renames>>
    /\ UNCHANGED othersR

InitUpdate ==
    /\ a_pc = "called"
    /\ assets \in AssetLists
    /\ target_triple \in Triples
    /\ selected = NoneAt
    /\ InitR
    /\ IdleL /\ IdleV /\ IdleT

NextUpdate ==
    \/ FindSuitableAsset
    \/ DownloadSelected(1)
    \/ ExtractOpen(1)
    \/ WriteAll(1)
    \/ Metadata(1)
    \/ SetPermissions(1)
    \/ RenameBackup(1)
    \/ RenameTemp(1)
    \/ RemoveBackup(1)

SpecUpdate == InitUpdate /\ [][NextUpdate]_vars

(***************************************************************************)
(* Claims about the update.                                                *)
(***************************************************************************)
\* C21: every asset that find_suitable_asset can return, for either platform
\* class, has a name whose suffix the extraction dispatch of
\* download_and_replace_binary handles: a selected asset never fails with
\* UnsupportedAssetFormat.
C21_SelectedAssetIsDispatched ==
    /\ (a_pc = "returned" /\ selected.some) =>
          SupportedSuffix(assets[selected.at])
    /\ asset[1] # NoAsset =>
          /\ asset[1] = assets[selected.at]
          /\ SupportedSuffix(asset[1])
    /\ result[1] # "UnsupportedAssetFormat"

\* C21's case: on windows the ".exe.zip" asset was selected, taken by the
\* ".zip" branch of the dispatch, and installed.
C21_Witness ==
    /\ Contains(target_triple, Windows)
    /\ selected.some
    /\ EndsWith(asset[1], ExtExeZip)
    /\ bytes[1].fmt = "zip"
    /\ pc[1] = "done"
    /\ result[1] = "Ok"
    /\ Content(CurrentExe) = NewB

(***************************************************************************)
(* Claims about the order of equal releases.                               *)
(***************************************************************************)
\* Two releases that the ordering rule does not tell apart: both versions
\* parse and are the same semantic version, or neither parses and they are
\* the same string.
EqualUnderRule(a, b) ==
    LET va == Parsed[a.version]
        vb == Parsed[b.version]
    IN \/ va.ok /\ vb.ok /\ CmpVersion(va, vb) = "Equal"
       \/ ~va.ok /\ ~vb.ok /\ a.version = b.version

\* C22: the ordering of list_releases is stable with respect to insertion
\* order: of two releases that compare equal under the ordering rule, the
\* primary source's comes before the secondary's, and two of one source
\* keep the order the source returned them in.
C22_EqualReleasesKeepInsertionOrder ==
    ReturnedOk =>
        \A i, j \in 1..Len(l_result.value) :
            (i < j /\ EqualUnderRule(l_result.value[i], l_result.value[j])) =>
                LET a == l_result.value[i]
                    b == l_result.value[j]
                IN /\ a.repo # b.repo => (a.repo = PrimaryId /\ b.repo = SecondaryId)
                   /\ a.repo = b.repo => a.published_at < b.published_at

\* C22's case: the sort moved releases, and the result holds the same
\* version from both sources and twice from one source.
C22_Witness ==
    /\ ReturnedOk
    /\ l_result.value # all_releases
    /\ \E i, j \in 1..Len(l_result.value) :
          /\ i < j
          /\ EqualUnderRule(l_result.value[i], l_result.value[j])
          /\ l_result.value[i].repo = PrimaryId
          /\ l_result.value[j].repo # PrimaryId
    /\ \E i, j \in 1..Len(l_result.value) :
          /\ i < j
          /\ EqualUnderRule(l_result.value[i], l_result.value[j])
          /\ l_result.value[i].repo = l_result.value[j].repo
          /\ l_result.value[i].published_at < l_result.value[j].published_at
====
